---- MODULE Spec2Model ----
(***************************************************************************)
(* The chat-widget message pipeline of the Fuzzy AI Assistant: session     *)
(* lifecycle, streamed-response assembly, abort-before-start, clear chat   *)
(* and the timers it schedules.  The repository holds several iterations   *)
(* of the same component; the variable `variant` says which one runs:      *)
(*   "page"     src/src/app/page.tsx   (chunks replace, update by id)      *)
(*   "part_000" src/unnamed/part_000   (chunks append, update last bot)    *)
(*   "part_001" src/unnamed/part_001   (no abort, isLoading flag)          *)
(* Every handler, timer callback and promise continuation is one atomic    *)
(* step (single UI event loop); a continuation that a handler makes        *)
(* runnable as a microtask (the rejection of an aborted request) runs      *)
(* inside the step of that handler.  A handler reads the React state of    *)
(* the render that created it: a handler called from a timer reads the     *)
(* state captured when the timer was set.                                  *)
(* Text is a sequence of tokens; " " is the whitespace token.              *)
(***************************************************************************)
EXTENDS Naturals, Sequences, FiniteSets, TLC

VARIABLES
    variant,             \* which iteration of the component runs
    isOpen,              \* useState isOpen
    messages,            \* useState messages
    chatStatus,          \* useState chatStatus (part_001: isLoading <=> "typing")
    session,             \* useState session (part_001: sessionId only)
    retryCount,          \* useState retryCount
    bookingAttempted,    \* useState bookingAttempted (page.tsx only)
    commonQuestions,     \* useState commonQuestions
    questionFetches,     \* the fetchCommonQuestions calls whose request is in flight
    abortControllerRef,  \* useRef: 0 is null, else the request whose controller it holds
    reqs,                \* the sendMessage invocations: locals and transport state
    timers,              \* pending setTimeout callbacks, in creation order
    sidCount,            \* how many session ids generateSessionId has produced
    bound,               \* the bounds of this run: sends, clears, tokens per reply
    logged,              \* console: the parse failures the last step logged
    rendered,            \* a text given to renderMessageContent, and what it shows
    clearedFrom          \* observer: 0, or the session id that the last clear chat
                         \* replaced, while the user has done nothing since

vars == <<variant, isOpen, messages, chatStatus, session, retryCount,
          bookingAttempted, commonQuestions, questionFetches,
          abortControllerRef, reqs, timers, sidCount, bound, logged, rendered,
          clearedFrom>>

----------------------------------------------------------------------------
(* Bounds *)

MaxSends == 2
MaxClears == 1
MaxText == 1

\* part_000 needs a finished exchange and a Cancel before a timer can send
DeepSends == 4

Variants == {"page", "part_000", "part_001"}
Rids == DOMAIN reqs

----------------------------------------------------------------------------
(* Text *)

IsSpace(c) == c = " "

RECURSIVE TrimStart(_)
TrimStart(s) ==
    IF s # <<>> /\ IsSpace(Head(s)) THEN TrimStart(Tail(s)) ELSE s

RECURSIVE TrimEnd(_)
TrimEnd(s) ==
    IF s # <<>> /\ IsSpace(s[Len(s)]) THEN TrimEnd(SubSeq(s, 1, Len(s) - 1)) ELSE s

\* String.prototype.trim
Trim(s) == TrimEnd(TrimStart(s))

\* String.prototype.includes, for a tag or phrase that is one token
Includes(s, tok) == \E i \in 1..Len(s) : s[i] = tok

ConfirmTag == "CONFIRM_SWITCH_MODE:"
SubmittedPhrase == "Your appointment request has been submitted successfully!"
UpdatedPhrase == "Perfect! Your appointment timing has been updated successfully!"
CancelText == <<"I would like to cancel the appointment booking.">>
ContinueText == <<"I would like to continue with the booking.">>
QuestionText == <<"What services does Fuzionest offer?">>

\* /change|update|reschedule|modify/i.test(text)
ChangeWords == {"change", "update", "reschedule", "modify"}
IsChangeRequest(text) == \E i \in 1..Len(text) : text[i] \in ChangeWords

----------------------------------------------------------------------------
(* Messages.  The id is the pair (kind, exchange): generateMessageId is    *)
(* taken to return distinct ids for distinct messages of a list.           *)

MsgId(k, r) == [k |-> k, r |-> r]

WelcomeMessage ==
    [id |-> MsgId("welcome", 0), sender |-> "bot", text |-> <<"Hello!">>, isError |-> FALSE]

\* (a user message that keeps the whitespace of the input)
UserMessageUntrimmed(r, text) ==
    [id |-> MsgId("user", r), sender |-> "user", text |-> text, isError |-> FALSE]

UserMessage(r, text) ==
    [id |-> MsgId("user", r), sender |-> "user", text |-> Trim(text), isError |-> FALSE]

TempBotMessage(r) ==
    [id |-> MsgId("reply", r), sender |-> "bot", text |-> <<>>, isError |-> FALSE]

\* getErrorMessage(error, retryCount), and the fixed copy of the other iterations
GetErrorMessage(v, kind, rc) ==
    IF v = "page" THEN <<"Connection Issue">>
    ELSE IF v = "part_001" THEN <<"technical difficulties">>
    ELSE IF kind = "Failed to fetch"
         THEN (IF rc < 2 THEN <<"Connection Issue", "try again">>
                         ELSE <<"Connection Issue", "contact support">>)
    ELSE IF kind = "HTTP 500" THEN <<"Server Error">>
    ELSE <<"Oops! Something went wrong">>

ErrorMessage(v, r, kind, rc) ==
    [id |-> MsgId("error", r), sender |-> "bot",
     text |-> GetErrorMessage(v, kind, rc), isError |-> TRUE]

----------------------------------------------------------------------------
(* State of one step.  A handler is a function from the state to the state *)
(* (its setState calls composed in call order); Commit makes it the next   *)
(* state.                                                                  *)

NoReq == [st |-> "none", sid |-> 0, rc |-> 0, text |-> <<>>]

Cur ==
    [isOpen |-> isOpen, messages |-> messages, chatStatus |-> chatStatus,
     session |-> session, retryCount |-> retryCount,
     bookingAttempted |-> bookingAttempted,
     commonQuestions |-> commonQuestions, questionFetches |-> questionFetches,
     abortControllerRef |-> abortControllerRef, reqs |-> reqs,
     timers |-> timers, sidCount |-> sidCount, logged |-> 0]

\* What the functions of one render have captured of the React state
Closure(S) ==
    [chatStatus |-> S.chatStatus, session |-> S.session, retryCount |-> S.retryCount]

NoClosure ==
    [chatStatus |-> "idle", session |-> [sessionId |-> 0, isBookingConfirmed |-> FALSE],
     retryCount |-> 0]

InFlight(st) == st \in {"fetching", "reading"}

NumReqs(S) == Cardinality({r \in DOMAIN S.reqs : S.reqs[r].st # "none"})

HasAbort(v) == v \in {"page", "part_000"}

\* AbortController.abort(): the pending fetch or read of the request rejects
\* with an AbortError; the rejection is handled once the caller has returned.
Abort(S, r) ==
    IF r # 0 /\ InFlight(S.reqs[r].st)
    THEN [S EXCEPT !.reqs[r].st = "aborting"]
    ELSE S

\* (a finally block that leaves the status as the try or the catch set it)
FinallyKeepsStatus(v, S, r) ==
    [S EXCEPT !.abortControllerRef = IF HasAbort(v) THEN 0 ELSE @,
              !.reqs[r] = [st |-> "over", sid |-> 0, rc |-> 0, text |-> <<>>]]

\* finally { setChatStatus('idle'); abortControllerRef.current = null; }
Finally(v, S, r) ==
    [S EXCEPT !.chatStatus = "idle",
              !.abortControllerRef = IF HasAbort(v) THEN 0 ELSE @,
              !.reqs[r] = [NoReq EXCEPT !.st = "over"]]

\* (a catch block that takes an AbortError for a failure of the request)
RECURSIVE SettleAbortedAsFailure(_, _)
SettleAbortedAsFailure(v, S) ==
    IF \E r \in Rids : S.reqs[r].st = "aborting"
    THEN LET r == CHOOSE q \in Rids : S.reqs[q].st = "aborting"
             S1 == [S EXCEPT !.messages = Append(@, [id |-> MsgId("error", r),
                                                     sender |-> "bot",
                                                     text |-> <<"Connection Issue">>,
                                                     isError |-> TRUE]),
                             !.retryCount = @ + 1]
         IN SettleAbortedAsFailure(v, Finally(v, S1, r))
    ELSE S

\* catch (error) { if (error.name === 'AbortError') return; ... } finally {...}
\* of every request aborted in this step
RECURSIVE SettleAborted(_, _)
SettleAborted(v, S) ==
    IF \E r \in Rids : S.reqs[r].st = "aborting"
    THEN LET r == CHOOSE q \in Rids : S.reqs[q].st = "aborting"
         IN SettleAborted(v, Finally(v, S, r))
    ELSE S

\* useEffect(() => { if (isOpen && messages.length === 0) setMessages([welcome]) })
WelcomeEffect(S) ==
    IF S.isOpen /\ S.messages = <<>>
    THEN [S EXCEPT !.messages = <<WelcomeMessage>>]
    ELSE S

\* the handlers a click or a submit calls, other than clear chat
UserOps == {"handleSendMessage", "handleQuestionClick", "handleTimeSlotClick",
            "handleConfirmSwitch:yes", "handleConfirmSwitch:no"}

\* the state the step of handler `op` leaves, once the rejections of the
\* requests it aborted are handled and the effects have run
Apply(T, op) ==
       /\ isOpen' = T.isOpen
       /\ messages' = T.messages
       /\ chatStatus' = T.chatStatus
       /\ session' = T.session
       /\ retryCount' = T.retryCount
       /\ bookingAttempted' = T.bookingAttempted
       /\ commonQuestions' = T.commonQuestions
       /\ questionFetches' = T.questionFetches
       /\ abortControllerRef' = T.abortControllerRef
       /\ reqs' = T.reqs
       /\ timers' = T.timers
       /\ sidCount' = T.sidCount
       /\ logged' = T.logged
       /\ clearedFrom' = IF op = "clearChat" THEN session.sessionId
                         ELSE IF op \in UserOps /\ T # Cur THEN 0
                         ELSE clearedFrom
       /\ UNCHANGED <<variant, bound, rendered>>

\* useEffect(() => { if (isOpen && commonQuestions.length === 0) fetchCommonQuestions() },
\*           [isOpen, commonQuestions.length])
\* after the render of S, the render before it being the current state;
\* in page.tsx the call is in the welcome effect
QuestionsEffect(v, S) ==
    IF v = "page"
    THEN (IF S.isOpen /\ S.messages = <<>>
          THEN [S EXCEPT !.questionFetches = @ + 1] ELSE S)
    ELSE IF /\ S.isOpen # isOpen \/ Len(S.commonQuestions) # Len(commonQuestions)
            /\ S.isOpen
            /\ S.commonQuestions = <<>>
    THEN [S EXCEPT !.questionFetches = @ + 1]
    ELSE S

Commit(S, op) ==
    \E T \in {WelcomeEffect(QuestionsEffect(variant, SettleAborted(variant, S)))} :
        Apply(T, op)

----------------------------------------------------------------------------
(* sendMessage *)

\* (a guard that does not look at the text)
AcceptsAnyText(c, text) == c.chatStatus # "typing"

\* if (!text.trim() || chatStatus === 'typing') return;
Accepts(c, text) == Trim(text) # <<>> /\ c.chatStatus # "typing"

SendMessage(v, S, c, text) ==
    IF ~Accepts(c, text) THEN S
    ELSE
    LET r == NumReqs(S) + 1
        S1 == IF v = "part_000" /\ c.session.isBookingConfirmed /\ IsChangeRequest(text)
              THEN [S EXCEPT !.session.isBookingConfirmed = FALSE]
              ELSE S
        S2 == [S1 EXCEPT !.messages = Append(@, UserMessage(r, text)),
                         !.chatStatus = "typing"]
        S3 == IF HasAbort(v)
              THEN [Abort(S2, S2.abortControllerRef) EXCEPT !.abortControllerRef = r]
              ELSE S2
    IN [S3 EXCEPT !.reqs[r] = [NoReq EXCEPT !.st = "fetching",
                                            !.sid = c.session.sessionId,
                                            !.rc = c.retryCount]]

\* (a catch block that shows no error message)
FailSilently(v, S, r, kind) ==
    Finally(v, [S EXCEPT !.chatStatus = IF v = "part_001" THEN @ ELSE "error"], r)

\* the catch block of sendMessage for an error that is no AbortError, then finally
Fail(v, S, r, kind) ==
    LET S1 == [S EXCEPT !.messages = Append(@, ErrorMessage(v, r, kind, S.reqs[r].rc))]
        S2 == IF v = "part_000" /\ S.reqs[r].rc < 2
              THEN [S1 EXCEPT !.retryCount = @ + 1]
              ELSE S1
        S3 == [S2 EXCEPT !.chatStatus = IF v = "part_001" THEN @ ELSE "error"]
    IN Finally(v, S3, r)

\* the end of the try block (setRetryCount(0)), then finally
Finish(v, S, r) ==
    Finally(v, [S EXCEPT !.retryCount = IF HasAbort(v) THEN 0 ELSE @], r)

----------------------------------------------------------------------------
(* The read loop.  One read result holds lines; a line is one streamed     *)
(* object, or text that JSON.parse rejects (bad): garbage, or the part of  *)
(* an object's line that the end of the read cut off.                      *)

Line(bad, chunk, final, sid, error) ==
    [bad |-> bad, chunk |-> chunk, final |-> final, sid |-> sid, error |-> error]

BadLine == Line(TRUE, <<>>, FALSE, "none", FALSE)
ChunkLine(t) == Line(FALSE, t, FALSE, "none", FALSE)
FinalLine(t) == Line(FALSE, t, TRUE, "none", FALSE)
SessionLine(sid) == Line(FALSE, <<>>, FALSE, sid, FALSE)
ErrorLine == Line(FALSE, <<>>, FALSE, "none", TRUE)

\* session_id of a streamed object: the id the request carried, or one the
\* backend assigns (0)
EchoedSid(S, r, sid) == IF sid = "echo" THEN S.reqs[r].sid ELSE 0

\* the setMessages updater that shows botMessageText
SetBotText(v, msgs, r, text) ==
    IF v = "page"
    THEN [i \in 1..Len(msgs) |->
            IF msgs[i].id = MsgId("reply", r) THEN [msgs[i] EXCEPT !.text = text]
            ELSE msgs[i]]
    ELSE IF msgs # <<>> /\ msgs[Len(msgs)].sender = "bot"
    THEN [msgs EXCEPT ![Len(msgs)].text = text]
    ELSE IF v = "part_001"
    THEN Append(msgs, [TempBotMessage(r) EXCEPT !.text = text])
    ELSE msgs

\* botMessageText.includes(<confirmation phrase>)
IsConfirmation(v, text) ==
    IF v = "page" THEN Includes(text, SubmittedPhrase)
    ELSE Includes(text, SubmittedPhrase) \/ Includes(text, UpdatedPhrase)

\* the body of `for (const jsonStr of jsonStrings)`: A holds the state and
\* the local isStreamComplete
ProcessLine(v, A, r, line) ==
    IF line.bad
    THEN [A EXCEPT !.S.logged = @ + 1]   \* JSON.parse throws, the inner catch logs it
    ELSE
    LET S == A.S
        text == IF line.chunk = <<>> THEN S.reqs[r].text
                ELSE IF v = "page" THEN line.chunk
                ELSE S.reqs[r].text \o line.chunk
        S1 == IF line.chunk = <<>> THEN S
              ELSE [S EXCEPT !.reqs[r].text = text,
                             !.messages = SetBotText(v, @, r, text)]
        S2 == IF line.final /\ v # "part_001" /\ IsConfirmation(v, text)
              THEN [S1 EXCEPT !.session.isBookingConfirmed = TRUE]
              ELSE S1
        S3 == IF line.sid # "none" /\ v # "page"
              THEN [S2 EXCEPT !.session.sessionId = EchoedSid(S, r, line.sid)]
              ELSE S2
        \* if (data.error) throw new Error(data.error): thrown inside the inner
        \* try, so the inner catch logs it and the loop goes on
        S4 == IF line.error /\ v # "page"
              THEN [S3 EXCEPT !.logged = @ + 1]
              ELSE S3
    IN [S |-> S4, complete |-> A.complete \/ (line.final /\ v # "page")]

RECURSIVE ProcessLines(_, _, _, _)
ProcessLines(v, A, r, lines) ==
    IF lines = <<>> THEN A
    ELSE ProcessLines(v, ProcessLine(v, A, r, Head(lines)), r, Tail(lines))

\* (a read loop without the inner try: a line JSON.parse rejects fails the request)
ReadChunkWithoutInnerTry(v, S, r, lines) ==
    IF \E i \in 1..Len(lines) : lines[i].bad
    THEN Fail(v, S, r, "SyntaxError")
    ELSE LET A == ProcessLines(v, [S |-> S, complete |-> FALSE], r, lines)
         IN IF A.complete THEN Finish(v, A.S, r) ELSE A.S

\* one iteration of the while loop whose read gave `lines`
ReadChunk(v, S, r, lines) ==
    LET A == ProcessLines(v, [S |-> S, complete |-> FALSE], r, lines)
    IN IF A.complete THEN Finish(v, A.S, r) ELSE A.S

----------------------------------------------------------------------------
(* clearChat and the timers *)

Timer(kind, c) == [kind |-> kind, c |-> c]

ClearChat(v, S) ==
    LET S1 == IF HasAbort(v) THEN Abort(S, S.abortControllerRef) ELSE S
        S2 == [S1 EXCEPT !.messages = <<>>,
                         !.bookingAttempted = FALSE,
                         !.session = [sessionId |-> S.sidCount + 1,
                                      isBookingConfirmed |-> FALSE],
                         !.sidCount = @ + 1,
                         !.timers = Append(@, Timer("welcome", NoClosure))]
    IN IF HasAbort(v)
       THEN [S2 EXCEPT !.chatStatus = "idle", !.retryCount = 0]
       ELSE S2

\* handleConfirmSwitch(choice)
HandleConfirmSwitch(v, S, choice) ==
    IF choice = "yes"
    THEN IF v = "part_000"
         THEN [ClearChat(v, S) EXCEPT !.timers = Append(@, Timer("send", Closure(S)))]
         ELSE SendMessage(v, ClearChat(v, S), Closure(S), CancelText)
    ELSE SendMessage(v, S, Closure(S), ContinueText)

RemoveAt(s, i) == SubSeq(s, 1, i - 1) \o SubSeq(s, i + 1, Len(s))

\* A timer may fire when no timer that is due earlier is pending: the welcome
\* timers (100 or 200 ms) fire in creation order, and the send timer (500 ms)
\* after every welcome timer created before it.
MayFire(ts, i) ==
    IF ts[i].kind = "welcome"
    THEN \A j \in 1..(i - 1) : ts[j].kind # "welcome"
    ELSE i = 1

----------------------------------------------------------------------------
(* renderMessageContent.  A directive's tag is one token; braces, quotes,   *)
(* commas and brackets are tokens of their own.                            *)

BookingTag == "BOOKING_COMPLETE:"
UpdateTag == "UPDATE_COMPLETE:"
SlotsOpen == "TIME_SLOTS_DISPLAY:["

\* text.indexOf(tok, from): the first position at or after `from`, 0 for -1
IndexOf(text, tok, from) ==
    IF \E i \in from..Len(text) : text[i] = tok
    THEN CHOOSE i \in from..Len(text) :
             text[i] = tok /\ \A j \in from..(i - 1) : text[j] # tok
    ELSE 0

\* the brace-depth scan from position i: the position of the brace that
\* brings the depth back to 0, or 0 when the text ends before
RECURSIVE JsonEnd(_, _, _)
JsonEnd(text, i, braceCount) ==
    IF i > Len(text) THEN 0
    ELSE IF text[i] = "{" THEN JsonEnd(text, i + 1, braceCount + 1)
    ELSE IF text[i] = "}"
         THEN (IF braceCount = 1 THEN i ELSE JsonEnd(text, i + 1, braceCount - 1))
    ELSE JsonEnd(text, i + 1, braceCount)

\* one round of [bookingCompleteTag, updateCompleteTag].forEach(tag => ...)
StripTag(text, tag) ==
    LET tagIndex == IndexOf(text, tag, 1)
        preTagText == Trim(SubSeq(text, 1, tagIndex - 1))
        jsonStart == IndexOf(text, "{", tagIndex)
        jsonEnd == IF jsonStart = 0 THEN 0 ELSE JsonEnd(text, jsonStart, 0)
        postTagText == IF jsonEnd = 0 THEN <<>>
                       ELSE Trim(SubSeq(text, jsonEnd + 1, Len(text)))
    IN IF tagIndex = 0 THEN text
       ELSE Trim(preTagText \o <<" ">> \o postTagText)

\* the tags this iteration strips, in the order of its rounds
StrippedTags(v) ==
    IF v = "part_000" THEN <<BookingTag, UpdateTag>>
    ELSE IF v = "part_001" THEN <<BookingTag>>
    ELSE <<>>

RECURSIVE StripTags(_, _)
StripTags(text, tags) ==
    IF tags = <<>> THEN text ELSE StripTags(StripTag(text, Head(tags)), Tail(tags))

\* s.replace(/'/g, '"')
RECURSIVE ReplaceQuotes(_)
ReplaceQuotes(s) ==
    IF s = <<>> THEN <<>>
    ELSE <<IF Head(s) = "'" THEN "\"" ELSE Head(s)>> \o ReplaceQuotes(Tail(s))

\* the first position at or after i that holds no whitespace (Len(s) + 1: none)
RECURSIVE SkipSpace(_, _)
SkipSpace(s, i) ==
    IF i <= Len(s) /\ IsSpace(s[i]) THEN SkipSpace(s, i + 1) ELSE i

NoParse == [ok |-> FALSE, items |-> <<>>]

\* JSON.parse of "[" + s + "]" from position i on, where `acc` holds the
\* elements read so far and an element is expected at i (after a comma when
\* `acc` is not empty).  The elements a text of these tokens can spell are
\* strings.
RECURSIVE JsonParseItems(_, _, _)
JsonParseItems(s, i, acc) ==
    LET a == SkipSpace(s, i)
        close == IF a < Len(s) THEN IndexOf(s, "\"", a + 1) ELSE 0
        b == SkipSpace(s, close + 1)
        items == Append(acc, SubSeq(s, a + 1, close - 1))
    IN IF a > Len(s) THEN [ok |-> acc = <<>>, items |-> <<>>]
       ELSE IF s[a] # "\"" \/ close = 0 THEN NoParse
       ELSE IF b > Len(s) THEN [ok |-> TRUE, items |-> items]
       ELSE IF s[b] = "," THEN JsonParseItems(s, b + 1, items)
       ELSE NoParse

\* the text without the occurrence of `tok` at position i
Without(text, i) == SubSeq(text, 1, i - 1) \o SubSeq(text, i + 1, Len(text))

\* the match of /TIME_SLOTS_DISPLAY:\[(.*?)\]/ and what the try block makes
\* of it: the text left, the slots parsed, the parse failures logged
ExtractSlots(text) ==
    LET start == IndexOf(text, SlotsOpen, 1)
        end == IF start = 0 THEN 0 ELSE IndexOf(text, "]", start + 1)
        match1 == SubSeq(text, start + 1, end - 1)
        parsed == JsonParseItems(ReplaceQuotes(match1), 1, <<>>)
    IN IF end = 0 \/ match1 = <<>>
       THEN [text |-> text, slots |-> <<>>, logged |-> 0]
       ELSE IF ~parsed.ok
       THEN [text |-> text, slots |-> <<>>, logged |-> 1]
       ELSE [text |-> Trim(SubSeq(text, 1, start - 1) \o SubSeq(text, end + 1, Len(text))),
             slots |-> parsed.items, logged |-> 0]

\* renderMessageContent(text): the text it shows, the time-slot buttons,
\* whether it shows Cancel / Continue, and the parse failures it logs
RenderMessageContent(v, text) ==
    LET E == ExtractSlots(StripTags(text, StrippedTags(v)))
    IN IF v # "page" /\ Includes(E.text, ConfirmTag)
       THEN [text |-> Trim(Without(E.text, IndexOf(E.text, ConfirmTag, 1))),
             slots |-> <<>>, confirm |-> TRUE, logged |-> E.logged]
       ELSE [text |-> E.text, slots |-> E.slots, confirm |-> FALSE,
             logged |-> E.logged]

----------------------------------------------------------------------------
(* Inputs *)

\* what the user types
Inputs == { <<" ">>, <<" ">> \o QuestionText \o <<" ">> }

\* why a request fails: fetch rejects, the status is not 2xx, the response has
\* no body, the connection drops while the body is read
FetchFailures == {"Failed to fetch", "HTTP 500", "no body"}
ReadFailure == "network error"

\* what one read of the response body gives
ReadInputs ==
    { <<BadLine>>, <<ChunkLine(<<"a">>)>>, <<FinalLine(<<ConfirmTag>>)>>,
      <<FinalLine(<<>>)>>, <<SessionLine("echo")>>,
      <<ErrorLine>>, <<ChunkLine(<<"a">>), ErrorLine>>,
      <<BadLine, ChunkLine(<<"a">>)>>,
      <<FinalLine(<<>>), ChunkLine(<<"a">>)>> }

\* the tokens one read result adds to the reply (bounds the reply's length)
RECURSIVE ChunkLen(_)
ChunkLen(lines) ==
    IF lines = <<>> THEN 0 ELSE Len(Head(lines).chunk) + ChunkLen(Tail(lines))

CanSend(c, text) == Accepts(c, text) => NumReqs(Cur) < bound.sends

CanClear == sidCount <= bound.clears

\* a message whose rendering shows the Cancel / Continue buttons
ShowsConfirm ==
    \E i \in 1..Len(messages) : RenderMessageContent(variant, messages[i].text).confirm

----------------------------------------------------------------------------
(* Steps *)

Bounds(s, c, t) == [sends |-> s, clears |-> c, text |-> t]

\* the component after its first render
Mounted(vs, b) ==
    /\ variant \in vs
    /\ bound = b
    /\ isOpen = FALSE
    /\ messages = <<>>
    /\ chatStatus = "idle"
    /\ session = [sessionId |-> 1, isBookingConfirmed |-> FALSE]
    /\ retryCount = 0
    /\ bookingAttempted = FALSE
    /\ commonQuestions = <<>>
    /\ questionFetches = 0
    /\ abortControllerRef = 0
    /\ reqs = [r \in 1..b.sends |-> NoReq]
    /\ timers = <<>>
    /\ sidCount = 1
    /\ logged = 0
    /\ clearedFrom = 0

NoInput == [kind |-> "none", pre |-> <<>>, tag |-> "", body |-> <<>>, post |-> <<>>]
NoOutput == [text |-> <<>>, slots |-> <<>>, confirm |-> FALSE, logged |-> 0]
NoRendered == [input |-> NoInput, done |-> FALSE, out |-> NoOutput]

Start(vs, b) == Mounted(vs, b) /\ rendered = NoRendered

Open ==
    /\ ~isOpen
    /\ Commit([Cur EXCEPT !.isOpen = TRUE], "open")

\* the form is submitted with `text` in the input
SubmitForm(text) ==
    /\ isOpen
    /\ CanSend(Closure(Cur), text)
    /\ Commit(SendMessage(variant, Cur, Closure(Cur), text),
              "handleSendMessage")

\* a quick suggestion is clicked
QuestionClick ==
    /\ isOpen
    /\ Len(messages) <= 1
    /\ variant = "page" => commonQuestions # <<>>
    /\ CanSend(Closure(Cur), QuestionText)
    /\ Commit(SendMessage(variant, Cur, Closure(Cur), QuestionText),
              "handleQuestionClick")

\* Cancel is clicked on a switch-confirmation prompt
ConfirmCancel ==
    /\ isOpen
    /\ variant \in {"part_000", "part_001"}
    /\ ShowsConfirm
    /\ CanClear
    /\ variant = "part_001" => CanSend(Closure(Cur), CancelText)
    /\ Commit(HandleConfirmSwitch(variant, Cur, "yes"),
              "handleConfirmSwitch:yes")

\* Continue is clicked on a switch-confirmation prompt
ConfirmContinue ==
    /\ isOpen
    /\ variant \in {"part_000", "part_001"}
    /\ ShowsConfirm
    /\ CanSend(Closure(Cur), ContinueText)
    /\ Commit(HandleConfirmSwitch(variant, Cur, "no"),
              "handleConfirmSwitch:no")

\* the clear-chat button is clicked
ClearClick ==
    /\ isOpen
    /\ CanClear
    /\ Commit(ClearChat(variant, Cur), "clearChat")

\* setTimeout(() => setMessages([welcomeMessage]), 200) comes due
WelcomeTimer ==
    \E i \in 1..Len(timers) :
        /\ timers[i].kind = "welcome"
        /\ MayFire(timers, i)
        /\ Commit([Cur EXCEPT !.timers = RemoveAt(@, i),
                              !.messages = <<WelcomeMessage>>],
                  "welcomeTimer")

\* setTimeout(() => sendMessage("I would like to cancel ..."), 500) comes due
SendTimer ==
    \E i \in 1..Len(timers) :
        /\ timers[i].kind = "send"
        /\ MayFire(timers, i)
        /\ CanSend(timers[i].c, CancelText)
        /\ Commit(SendMessage(variant, [Cur EXCEPT !.timers = RemoveAt(@, i)],
                              timers[i].c, CancelText),
                  "sendTimer")

\* fetch rejects, or resolves with a response the code throws on
FetchFail(r, kind) ==
    /\ reqs[r].st = "fetching"
    /\ Commit(Fail(variant, Cur, r, kind), "fetchFail")

\* fetch resolves with a 2xx response that has a body
FetchOk(r) ==
    /\ reqs[r].st = "fetching"
    /\ Commit([Cur EXCEPT !.reqs[r].st = "reading",
                          !.messages = Append(@, TempBotMessage(r))],
              "fetchOk")

\* reader.read() resolves with data
Read(r, lines) ==
    /\ reqs[r].st = "reading"
    /\ Len(reqs[r].text) + ChunkLen(lines) <= bound.text
    /\ Commit(ReadChunk(variant, Cur, r, lines), "read")

\* reader.read() resolves with done
ReadDone(r) ==
    /\ reqs[r].st = "reading"
    /\ Commit(Finish(variant, Cur, r), "readDone")

\* reader.read() rejects
ReadFail(r) ==
    /\ reqs[r].st = "reading"
    /\ Commit(Fail(variant, Cur, r, ReadFailure), "readFail")

\* the steps of the component when the user types a text of `inputs` and a
\* read of a response body gives a result of `reads`
Steps(inputs, reads) ==
    \/ Open
    \/ \E text \in inputs : SubmitForm(text)
    \/ QuestionClick
    \/ ConfirmCancel
    \/ ConfirmContinue
    \/ ClearClick
    \/ WelcomeTimer
    \/ SendTimer
    \/ \E r \in Rids, kind \in FetchFailures : FetchFail(r, kind)
    \/ \E r \in Rids : FetchOk(r)
    \/ \E r \in Rids, lines \in reads : Read(r, lines)
    \/ \E r \in Rids : ReadDone(r)
    \/ \E r \in Rids : ReadFail(r)

Next == Steps(Inputs, ReadInputs)

Init == Start(Variants, Bounds(MaxSends, MaxClears, MaxText))

Spec == Init /\ [][Next]_vars

\* part_000 alone, with room for the exchanges that follow a Cancel
InitDeep == Start({"part_000"}, Bounds(DeepSends, MaxClears, MaxText))

SpecDeep == InitDeep /\ [][Next]_vars

\* the iterations that abort, part_000 with room for a send by the timer
InitAbort ==
    \/ Start({"page"}, Bounds(MaxSends, MaxClears, MaxText))
    \/ Start({"part_000"}, Bounds(MaxSends + 1, MaxClears, MaxText))

SpecAbort == InitAbort /\ [][Next]_vars

\* The transport is fair: every request is answered or fails, every read
\* of a response body returns, every response body ends.  The timers fire.
Transport ==
    \E r \in Rids :
        \/ FetchOk(r)
        \/ \E kind \in FetchFailures : FetchFail(r, kind)
        \/ ReadDone(r)
        \/ ReadFail(r)

Fairness ==
    /\ WF_vars(Transport)
    /\ WF_vars(WelcomeTimer)
    /\ WF_vars(SendTimer)

SpecLive == Spec /\ Fairness

\* the iterations that abort, with room for a clear chat after a Cancel
InitClear == Start({"page", "part_000"}, Bounds(MaxSends, MaxClears + 1, MaxText))

SpecClear == InitClear /\ [][Next]_vars /\ Fairness

----------------------------------------------------------------------------
(* Booking confirmation *)

RescheduleText == <<"Please", "reschedule", "my appointment">>

\* what the user types in a booking conversation
BookingInputs == { QuestionText, RescheduleText }

\* what one read gives in a booking conversation
BookingReads ==
    { <<ChunkLine(<<SubmittedPhrase>>)>>, <<FinalLine(<<SubmittedPhrase>>)>>,
      <<FinalLine(<<UpdatedPhrase>>)>>, <<FinalLine(<<>>)>>,
      <<FinalLine(<<ConfirmTag>>)>> }

NextBooking == Steps(BookingInputs, BookingReads)

\* the iterations that keep isBookingConfirmed
InitBooking == Start({"page", "part_000"}, Bounds(MaxSends, MaxClears, MaxText))

SpecBooking == InitBooking /\ [][NextBooking]_vars

----------------------------------------------------------------------------
(* Texts to render *)

\* a reply to render: `pre`, a directive and `post`.  The directive is a
\* completion tag with its JSON blob `body`, or the time-slot directive with
\* the list `body` of the items it quotes.
RenderInput(kind, pre, tag, body, post) ==
    [kind |-> kind, pre |-> pre, tag |-> tag, body |-> body, post |-> post]

\* 'item1','item2',...
RECURSIVE QuotedItems(_)
QuotedItems(items) ==
    IF items = <<>> THEN <<>>
    ELSE <<"'">> \o Head(items) \o <<"'">>
         \o (IF Len(items) = 1 THEN <<>> ELSE <<",">> \o QuotedItems(Tail(items)))

TextOf(in) ==
    IF in.kind = "complete" THEN in.pre \o <<in.tag>> \o in.body \o in.post
    ELSE IF in.kind = "slots"
    THEN in.pre \o <<in.tag>> \o QuotedItems(in.body) \o <<"]">> \o in.post
    ELSE in.pre

PreTexts == { <<>>, <<"Done.">>, <<"Done.", " ">> }
PostTexts == { <<>>, <<" ", "thanks!">>, <<"thanks!", " ">> }

\* JSON blobs with balanced braces
JsonBlobs ==
    { <<"{", "}">>, <<"{", "\"x\":1", "}">>, <<"{", "\"x\":", "{", "}", "}">> }

\* what a time-slot item may hold: plain text, a double quote, a bracket
ItemTexts == { <<"10am">>, <<"2pm">>, <<"2", "\"", "pm">>, <<"2pm", "]">> }
ItemLists == { <<a>> : a \in ItemTexts } \cup { <<a, b>> : a, b \in ItemTexts }

\* other texts: plain, an empty slot list, a blob whose braces are not
\* balanced yet, a tag twice, the switch-confirmation prompt
RawTexts ==
    { <<"Hello">>,
      <<"Pick:", " ", SlotsOpen, "]">>,
      <<"Done.", " ", BookingTag, "{", "\"x\":1">>,
      <<BookingTag, "{", "}", " ", BookingTag, "{", "}">>,
      <<SlotsOpen, "'", "10am", "'", "]", " ", SlotsOpen, "'", "2pm", "'", "]">>,
      <<ConfirmTag, " ", "Cancel the booking?">>,
      <<ConfirmTag, " ", "Cancel the booking?", " ", ConfirmTag>>,
      <<ConfirmTag, " ", SlotsOpen, "'", "10am", "'", "]">> }

RenderInputs ==
    { RenderInput("complete", pre, tag, body, post) :
          pre \in PreTexts, tag \in {BookingTag, UpdateTag},
          body \in JsonBlobs, post \in PostTexts }
    \cup { RenderInput("slots", pre, SlotsOpen, body, post) :
               pre \in PreTexts, body \in ItemLists, post \in PostTexts }
    \cup { RenderInput("raw", text, "", <<>>, <<>>) : text \in RawTexts }

\* a message with the text of rendered.input is rendered
RenderMessage ==
    /\ ~rendered.done
    /\ rendered' = [rendered EXCEPT
                       !.done = TRUE,
                       !.out = RenderMessageContent(variant, TextOf(rendered.input))]
    /\ UNCHANGED <<variant, isOpen, messages, chatStatus, session, retryCount,
                   bookingAttempted, commonQuestions, questionFetches,
                   abortControllerRef, reqs, timers, sidCount, bound, logged,
                   clearedFrom>>

\* the iterations that render directives themselves, with a reply to render
InitRender ==
    /\ Mounted({"page", "part_000"}, Bounds(MaxSends, MaxClears, MaxText))
    /\ \E in \in RenderInputs : rendered = [NoRendered EXCEPT !.input = in]

SpecRender == InitRender /\ [][RenderMessage]_vars

\* every iteration, with a reply to render
InitRenderAll ==
    /\ Mounted(Variants, Bounds(MaxSends, MaxClears, MaxText))
    /\ \E in \in RenderInputs : rendered = [NoRendered EXCEPT !.input = in]

SpecRenderAll == InitRenderAll /\ [][RenderMessage]_vars

----------------------------------------------------------------------------
(* Time slots *)

\* the label of a time-slot button, and the directive TIME_SLOTS_DISPLAY:['10:00 AM']
\* that renders it
SlotText == <<"10:00 AM">>
SlotsDirective == <<SlotsOpen>> \o QuotedItems(<<SlotText>>) \o <<"]">>

\* the labels of the time-slot buttons that the messages show
SlotsShown ==
    UNION { LET slots == RenderMessageContent(variant, messages[i].text).slots
            IN { slots[k] : k \in 1..Len(slots) } : i \in 1..Len(messages) }

\* disabled={bookingAttempted || session.isBookingConfirmed || chatStatus === 'typing'}
SlotEnabled(v, S) ==
    IF v = "part_001" THEN TRUE
    ELSE /\ S.chatStatus # "typing"
         /\ ~S.session.isBookingConfirmed
         /\ v = "page" => ~S.bookingAttempted

\* handleTimeSlotClick(slot)
HandleTimeSlotClick(v, S, c, slot) ==
    IF v = "part_001" THEN SendMessage(v, S, c, slot)
    ELSE IF c.chatStatus # "typing" /\ ~c.session.isBookingConfirmed
         THEN SendMessage(v, [S EXCEPT !.bookingAttempted = (v = "page")], c, slot)
         ELSE S

\* a time-slot button is clicked
SlotClick ==
    /\ isOpen
    /\ SlotEnabled(variant, Cur)
    /\ \E slot \in SlotsShown :
          /\ CanSend(Closure(Cur), slot)
          /\ Commit(HandleTimeSlotClick(variant, Cur, Closure(Cur), slot),
                    "handleTimeSlotClick")

\* what one read gives in a conversation that offers time slots
SlotReads ==
    { <<FinalLine(SlotsDirective)>>, <<FinalLine(<<SubmittedPhrase>>)>>,
      <<FinalLine(<<>>)>>, <<FinalLine(<<ConfirmTag>>)>> }

NextSlots == Steps({QuestionText}, SlotReads) \/ SlotClick

\* the iterations that guard the time-slot buttons, with room for a second click
InitSlots ==
    Start({"page", "part_000"}, Bounds(MaxSends + 1, MaxClears, Len(SlotsDirective)))

SpecSlots == InitSlots /\ [][NextSlots]_vars

----------------------------------------------------------------------------
(* Chunks *)

\* a line that the end of the read cut: its text is no JSON, and `t` is the
\* response_chunk of the object the backend sent in it
SplitLine(t) == Line(TRUE, t, FALSE, "none", FALSE)

\* what one read gives in a reply of several chunks
ChunkReads ==
    { <<ChunkLine(<<"a">>)>>, <<ChunkLine(<<"b">>)>>,
      <<ChunkLine(<<"a">>), ChunkLine(<<"b">>)>>, <<SplitLine(<<"b">>)>>,
      <<FinalLine(<<>>)>>, <<FinalLine(<<ConfirmTag>>)>> }

NextChunks == Steps({QuestionText}, ChunkReads)

\* every iteration, with replies of more than one chunk
InitChunks == Start(Variants, Bounds(MaxSends, MaxClears, MaxText + 1))

SpecChunks == InitChunks /\ [][NextChunks]_vars

----------------------------------------------------------------------------
(* Common questions *)

MaxFetches == 2

\* the list of the catch block, and a list the backend sends
FallbackQuestions ==
    <<"What services does Fuzionest offer?", "Tell me about the company's mission.",
      "How can I contact the support team?", "I'd like to book an appointment">>
ServerQuestions == <<"What services does Fuzionest offer?", "Do you build apps?">>

\* slice(0, 3)
Slice3(s) == SubSeq(s, 1, IF Len(s) < 3 THEN Len(s) ELSE 3)

\* the quick suggestions shown while commonQuestions is `questions`
Suggestions(v, questions) ==
    IF v = "page" THEN questions
    ELSE IF questions # <<>> THEN Slice3(questions)
    ELSE IF v = "part_001" THEN Slice3(FallbackQuestions)
    ELSE <<FallbackQuestions[1], FallbackQuestions[3], FallbackQuestions[4]>>

\* the close button is clicked
Close ==
    /\ isOpen
    /\ questionFetches < MaxFetches
    /\ Commit([Cur EXCEPT !.isOpen = FALSE], "close")

\* setCommonQuestions(data.questions || [])
QuestionsOk(questions) ==
    /\ questionFetches > 0
    /\ Commit([Cur EXCEPT !.questionFetches = @ - 1, !.commonQuestions = questions],
              "questionsOk")

\* the catch block of fetchCommonQuestions
QuestionsFail ==
    /\ questionFetches > 0
    /\ Commit([Cur EXCEPT !.questionFetches = @ - 1,
                          !.commonQuestions = IF variant = "part_001" THEN @
                                              ELSE FallbackQuestions],
              "questionsFail")

\* what one read gives in the conversations of this part
QuestionReads == { <<FinalLine(<<ConfirmTag>>)>>, <<FinalLine(<<>>)>> }

NextQuestions ==
    \/ Steps({QuestionText}, QuestionReads)
    \/ Close
    \/ \E questions \in {ServerQuestions, <<>>} : QuestionsOk(questions)
    \/ QuestionsFail

SpecQuestions == Init /\ [][NextQuestions]_vars

----------------------------------------------------------------------------
(* Session ids *)

\* what one read gives when the backend sends a session_id: the one the
\* request carried, or one it assigns
SessionReads ==
    { <<SessionLine("echo")>>, <<SessionLine("new")>>,
      <<ChunkLine(<<"a">>), SessionLine("new")>>,
      <<FinalLine(<<>>)>>, <<FinalLine(<<ConfirmTag>>)>> }

NextSession == Steps({QuestionText}, SessionReads)

SpecSession == Init /\ [][NextSession]_vars

----------------------------------------------------------------------------
(* Late responses: conversations without a switch prompt, so that every    *)
(* request carries the session id of the render that sent it               *)

LateReads ==
    { <<ChunkLine(<<"a">>)>>, <<FinalLine(<<>>)>>, <<SessionLine("echo")>> }

NextLate ==
    \/ Open
    \/ SubmitForm(QuestionText)
    \/ QuestionClick
    \/ ClearClick
    \/ WelcomeTimer
    \/ \E r \in Rids, kind \in FetchFailures : FetchFail(r, kind)
    \/ \E r \in Rids : FetchOk(r)
    \/ \E r \in Rids, lines \in LateReads : Read(r, lines)
    \/ \E r \in Rids : ReadDone(r)
    \/ \E r \in Rids : ReadFail(r)

SpecLate == Init /\ [][NextLate]_vars

----------------------------------------------------------------------------
(* Deliveries: the same response bytes, split into reads in different ways *)

\* the while loop over the reads `reads` of the body of request r
RECURSIVE Deliver(_, _, _, _)
Deliver(v, S, r, reads) ==
    IF reads = <<>> \/ S.reqs[r].st # "reading" THEN S
    ELSE Deliver(v, ReadChunk(v, S, r, Head(reads)), r, Tail(reads))

\* the objects of a response, the one with is_final being the last
ChunkObjects == { ChunkLine(<<"a">>), ChunkLine(<<"b">>) }
LastObjects == ChunkObjects \cup { FinalLine(<<"b">>), FinalLine(<<>>) }

\* two objects in one read, and the same bytes in two reads: split at the
\* newline between the objects, or inside the line of the second object
BetweenLines ==
    { [whole |-> <<o1, o2>>, reads |-> << <<o1>>, <<o2>> >>] :
          o1 \in ChunkObjects, o2 \in LastObjects }

InsideLine ==
    { [whole |-> <<o1, o2>>, reads |-> << <<o1, SplitLine(o2.chunk)>>, <<BadLine>> >>] :
          o1 \in ChunkObjects, o2 \in LastObjects }

----------------------------------------------------------------------------
(* Directives typed by the user *)

\* what the user types: directives as the backend writes them
TypedInputs ==
    { SlotsDirective, <<ConfirmTag, " ", "Cancel the booking?">>,
      <<BookingTag, "{", "}">> }

TypedReads == { <<ChunkLine(<<"a">>)>>, <<FinalLine(<<>>)>> }

NextTyped == Steps(TypedInputs, TypedReads) \/ SlotClick

SpecTyped == Init /\ [][NextTyped]_vars

----------------------------------------------------------------------------
(* Properties *)

HasText(text) == \E i \in 1..Len(text) : ~IsSpace(text[i])

\* t is text without the whitespace at its two ends
IsTrimOf(t, text) ==
    \E i, j \in 1..Len(text) :
        /\ t = SubSeq(text, i, j)
        /\ ~IsSpace(text[i])
        /\ ~IsSpace(text[j])
        /\ \A k \in 1..Len(text) : (k < i \/ k > j) => IsSpace(text[k])

\* this step appends one user message, the trimmed `text`, to `base`, which
\* holds no message of the exchange yet
UserAppended(base, text) ==
    /\ Len(messages') = Len(base) + 1
    /\ SubSeq(messages', 1, Len(base)) = base
    /\ LET m == messages'[Len(messages')]
       IN /\ m.sender = "user"
          /\ ~m.isError
          /\ IsTrimOf(m.text, text)
          /\ \A i \in 1..Len(base) : base[i].id.r # m.id.r

\* this step adds no error message to the list
NoNewError ==
    \A i \in 1..Len(messages') :
        messages'[i].isError => \E j \in 1..Len(messages) : messages[j] = messages'[i]

\* this step is a sendMessage call from the form, a quick suggestion or
\* Continue, which sees a status other than typing
SendWhenNotTyping ==
    /\ chatStatus # "typing"
    /\ \/ \E text \in Inputs : HasText(text) /\ SubmitForm(text)
       \/ QuestionClick
       \/ ConfirmContinue

\* this step is the sendMessage call of the Cancel timer, which sees a status
\* other than typing
TimerSendWhenNotTyping == SendTimer /\ timers[1].c.chatStatus # "typing"

C1_Step ==
    /\ \A text \in Inputs :
          (HasText(text) /\ chatStatus # "typing" /\ SubmitForm(text))
              => UserAppended(messages, text)
    /\ (chatStatus # "typing" /\ QuestionClick) => UserAppended(messages, QuestionText)
    /\ (chatStatus # "typing" /\ ConfirmContinue) => UserAppended(messages, ContinueText)
    /\ (chatStatus # "typing" /\ variant = "part_001" /\ ConfirmCancel)
              => UserAppended(<<>>, CancelText)
    /\ TimerSendWhenNotTyping => UserAppended(messages, CancelText)

C1_Order ==
    \A i, j \in 1..Len(messages) :
        (/\ messages[i].sender = "user"
         /\ messages[j].sender = "bot"
         /\ messages[j].id.r = messages[i].id.r) => i < j

\* C1: every accepted sendMessage(text) appends exactly one user message, whose
\* text is trim(text), and the user message of an exchange stands before every
\* bot message (reply placeholder, error message) of that exchange.
C1_UserMessageFirst == [][C1_Step]_vars /\ []C1_Order

\* a typed question with blanks around it was sent and its reply has begun
C1_Witness ==
    \E i, j \in 1..Len(messages) :
        /\ i < j
        /\ messages[i].sender = "user"
        /\ messages[i].text = QuestionText
        /\ messages[j].id = MsgId("reply", messages[i].id.r)

\* C2: a sendMessage call made while the status is typing (form, quick
\* suggestion, Continue, the deferred call of Cancel) changes neither the
\* message list, the status, the session nor the retry counter, and issues no
\* request.
C2_TypingSendIsNoOp ==
    [][(/\ chatStatus = "typing"
        /\ \/ \E text \in Inputs : SubmitForm(text)
           \/ QuestionClick
           \/ ConfirmContinue
           \/ SendTimer)
       => UNCHANGED <<messages, chatStatus, session, retryCount, reqs>>]_vars

\* C3: at most one request that has not been aborted is in flight.
C3_OneRequestInFlight ==
    Cardinality({r \in Rids : InFlight(reqs[r].st)}) <= 1

\* C4: the chunks of a request change no message but the reply of that request.
C4_ChunksOnlyChangeOwnReply ==
    [][\A r \in Rids, lines \in ReadInputs :
          Read(r, lines) =>
              \A i \in 1..Len(messages) :
                  messages[i].id # MsgId("reply", r)
                      => i <= Len(messages') /\ messages'[i] = messages[i]]_vars

\* the controller of abortControllerRef belongs to a request in flight: the
\* step that calls abort() on it rejects that request
Abortable(r) == HasAbort(variant) /\ abortControllerRef = r /\ InFlight(reqs[r].st)

C5_Step ==
    \A r \in Rids :
        Abortable(r) =>
            /\ (ClearClick \/ ConfirmCancel)
                  => reqs'[r].st = "over" /\ NoNewError /\ retryCount' = 0
            /\ (SendWhenNotTyping \/ TimerSendWhenNotTyping)
                  => reqs'[r].st = "over" /\ NoNewError /\ retryCount' = retryCount

\* C5: the step that aborts a request in flight (a new send, clear chat) ends
\* the request without an error message, and the retry counter is what the
\* aborting handler alone makes it (clear chat: 0, a send: unchanged).
C5_AbortIsSwallowed == [][C5_Step]_vars

\* part_000 after the Cancel timer sent over a request in flight: the aborted
\* request is over (its finally block nulled the ref and set the status idle),
\* the timer's request is in flight, no error message, retry counter 0
C5_Witness ==
    /\ variant = "part_000"
    /\ abortControllerRef = 0
    /\ chatStatus = "idle"
    /\ retryCount = 0
    /\ Cardinality({r \in Rids : reqs[r].st = "over"}) = 2
    /\ \E r \in Rids : reqs[r].st = "fetching"
    /\ \A i \in 1..Len(messages) : ~messages[i].isError

C6_Step ==
    \A r \in Rids, kind \in FetchFailures :
        FetchFail(r, kind) =>
            /\ Len(messages') = Len(messages) + 1
            /\ SubSeq(messages', 1, Len(messages)) = messages
            /\ messages'[Len(messages')].sender = "bot"
            /\ messages'[Len(messages')].isError
            /\ \A i \in 1..Len(messages) : ~(messages[i].isError /\ messages[i].id.r = r)
            /\ \A i \in 1..Len(messages') : messages'[i].id # MsgId("reply", r)
            /\ chatStatus' = "idle"

\* C6: a request that fails before its stream starts appends exactly one
\* isError bot message, the list holds no reply placeholder of the request,
\* and the status is idle afterwards.
C6_FailureBeforeStream == [][C6_Step]_vars

\* a user message directly followed by the error message of its request, idle
C6_Witness ==
    /\ chatStatus = "idle"
    /\ \E i \in 1..Len(messages) :
          /\ i < Len(messages)
          /\ messages[i].sender = "user"
          /\ messages[i + 1].isError
          /\ messages[i + 1].id = MsgId("error", messages[i].id.r)

HasErrorLine(lines) == \E i \in 1..Len(lines) : lines[i].error

\* C7: reading a streamed object with an error field fails the send: the list
\* then holds an isError bot message of the request.
C7_ErrorFieldFailsSend ==
    [][\A r \in Rids, lines \in ReadInputs :
          (HasErrorLine(lines) /\ Read(r, lines)) =>
              \E i \in 1..Len(messages') :
                  /\ messages'[i].isError
                  /\ messages'[i].sender = "bot"
                  /\ messages'[i].id.r = r]_vars

HasBadLine(lines) == \E i \in 1..Len(lines) : lines[i].bad

WellFormed(lines) == SelectSeq(lines, LAMBDA l : ~l.bad)

C8_Step ==
    \A r \in Rids, lines \in ReadInputs :
        (HasBadLine(lines) /\ Read(r, lines)) =>
            /\ NoNewError
            /\ reqs'[r].st = "reading"
            /\ logged' = 1
            /\ messages' = ReadChunk(variant, Cur, r, WellFormed(lines)).messages
            /\ \A i \in 1..Len(lines) :
                  lines[i].chunk # <<>> =>
                      reqs'[r].text = IF variant = "page" THEN lines[i].chunk
                                      ELSE reqs[r].text \o lines[i].chunk

\* C8: a read that holds a line JSON.parse rejects logs it and goes on: no
\* error message, the request keeps reading, and the list and the reply text
\* are those the well-formed lines of the read give.
C8_MalformedLineSkipped == [][C8_Step]_vars

\* a malformed line was logged by the read that also applied a chunk
C8_Witness ==
    /\ logged = 1
    /\ \E r \in Rids :
          /\ reqs[r].st = "reading"
          /\ reqs[r].text = <<"a">>
          /\ \E i \in 1..Len(messages) :
                messages[i].id = MsgId("reply", r) /\ messages[i].text = <<"a">>

Quiescent == \A r \in Rids : ~InFlight(reqs[r].st)

\* C9: with a fair transport a status of typing leads to idle, and a state
\* with no request in flight has status idle (neither typing nor error).
C9_StatusReturnsToIdle ==
    /\ [](Quiescent => chatStatus = "idle")
    /\ (chatStatus = "typing") ~> (chatStatus = "idle")

\* a request failed, another finished, and the status is idle again
C9_Witness ==
    /\ Quiescent
    /\ chatStatus = "idle"
    /\ \E i \in 1..Len(messages) : messages[i].isError
    /\ \E i \in 1..Len(messages) : messages[i].sender = "bot" /\ messages[i].text = <<"a">>

\* C10: after clear chat, while the user does nothing more, the session id is
\* not the one before the clear, isBookingConfirmed is false, the status is
\* idle, the retry counter is 0, and the list becomes the welcome message alone.
C10_ClearChatResets ==
    /\ [](clearedFrom # 0 =>
            /\ session.sessionId # clearedFrom
            /\ ~session.isBookingConfirmed
            /\ chatStatus = "idle"
            /\ retryCount = 0)
    /\ (clearedFrom # 0) ~> (clearedFrom = 0 \/ messages = <<WelcomeMessage>>)

\* botMessageText once the one line of `lines` is applied
TextAfter(r, lines) ==
    IF lines[1].chunk = <<>> THEN reqs[r].text
    ELSE IF variant = "page" THEN lines[1].chunk
    ELSE reqs[r].text \o lines[1].chunk

\* the confirmation phrases the iteration looks for
Recognized == IF variant = "page" THEN {SubmittedPhrase} ELSE {SubmittedPhrase, UpdatedPhrase}

C11_Step ==
    /\ \A r \in Rids, lines \in BookingReads :
          (/\ Read(r, lines)
           /\ lines[1].final
           /\ \E p \in Recognized : Includes(TextAfter(r, lines), p))
              => session'.isBookingConfirmed
    /\ \A text \in BookingInputs :
          (/\ SubmitForm(text)
           /\ chatStatus # "typing"
           /\ Includes(text, "reschedule")
           /\ session.isBookingConfirmed)
              => ~session'.isBookingConfirmed

\* C11: the final line of a response whose text holds a recognized
\* confirmation phrase makes isBookingConfirmed true, and an accepted user
\* message containing "reschedule", sent while it is true, makes it false.
C11_BookingConfirmedSetAndReset == [][C11_Step]_vars

\* this step is an accepted sendMessage call
AcceptedSend ==
    \/ SendWhenNotTyping
    \/ TimerSendWhenNotTyping
    \/ (variant = "part_001" /\ chatStatus # "typing" /\ ConfirmCancel)
    \/ (chatStatus # "typing" /\ SlotClick)

C12_Step ==
    /\ (chatStatus # "typing" /\ chatStatus' = "typing") => AcceptedSend
    /\ \A text \in Inputs :
          (~HasText(text) /\ SubmitForm(text))
              => UNCHANGED <<isOpen, messages, chatStatus, session, retryCount,
                             bookingAttempted, commonQuestions, questionFetches,
                             abortControllerRef, reqs, timers, sidCount>>

\* C12: the status becomes typing only by an accepted send, and a send of
\* an empty or whitespace-only text changes no message, no request, not the
\* status and no other state of the component.
C12_TypingOnlyByAcceptedSend == [][C12_Step]_vars

\* an accepted send has just set the status to typing
C12_Witness ==
    /\ chatStatus = "typing"
    /\ \E r \in Rids :
          /\ reqs[r].st = "fetching"
          /\ messages # <<>>
          /\ messages[Len(messages)].id = MsgId("user", r)

\* this step is the failure of request r: its catch block appends an error message
FailureOf(r) == (\E kind \in FetchFailures : FetchFail(r, kind)) \/ ReadFail(r)

\* this step is the successful end of request r: is_final, or the end of the body
SuccessOf(r) ==
    \/ ReadDone(r)
    \/ (reqs'[r].st = "over" /\ \E lines \in ReadInputs : Read(r, lines))

C13_Step ==
    \A r \in Rids :
        /\ FailureOf(r) => retryCount' = retryCount + 1
        /\ SuccessOf(r) => retryCount' = 0

\* C13: every failed send adds 1 to the retry counter and every successful
\* send sets it to 0.
C13_RetryCounter == [][C13_Step]_vars

\* a time slot was already chosen in this conversation
SlotChosen ==
    \E i \in 1..Len(messages) :
        messages[i].sender = "user" /\ messages[i].text = SlotText

C14_Step ==
    (SlotClick /\ reqs' # reqs) => (~session.isBookingConfirmed /\ ~SlotChosen)

\* C14: a click on a time-slot button starts a send only while no booking is
\* confirmed and no time slot was chosen before in the conversation.
C14_SlotClickSendsOnce == [][C14_Step]_vars

\* the user message of the cancellation is in the list `ms`
CancelInList(ms) ==
    \E i \in 1..Len(ms) : ms[i].sender = "user" /\ ms[i].text = CancelText

\* this step is the last pending timer coming due: the clear has settled
ClearSettles == Len(timers) = 1 /\ (WelcomeTimer \/ SendTimer)

C15_Step ==
    /\ (variant = "part_000" /\ SendTimer)
          => (reqs' # reqs /\ CancelInList(messages'))
    /\ (variant = "part_001" /\ chatStatus # "typing" /\ ConfirmCancel)
          => (reqs' # reqs /\ session'.sessionId # session.sessionId)
    /\ (variant = "part_001" /\ CancelInList(messages) /\ ClearSettles)
          => CancelInList(messages')
    /\ (chatStatus # "typing" /\ ConfirmContinue)
          => /\ UserAppended(messages, ContinueText)
             /\ reqs' # reqs
             /\ session' = session

\* C15: Cancel clears the chat and sends the cancellation message: a request
\* is issued for it and its user message is in the list when the timers of the
\* clear have fired.  Continue sends the continuation message in the same
\* session with the list kept.
C15_CancelClearsThenSends == [][C15_Step]_vars

\* C16: for a text pre + completion tag + JSON blob + post, the displayed text
\* is trim(pre + " " + post).
C16_CompletionDirectiveStripped ==
    (rendered.done /\ rendered.input.kind = "complete")
        => rendered.out.text = Trim(rendered.input.pre \o <<" ">> \o rendered.input.post)

\* C17: for a text with the time-slot directive and a list of single-quoted
\* items, the slots parsed are those items in their order and the displayed
\* text does not hold the directive.
C17_TimeSlotsParsed ==
    (rendered.done /\ rendered.input.kind = "slots")
        => /\ rendered.out.slots = rendered.input.body
           /\ ~Includes(rendered.out.text, SlotsOpen)

\* message i of the list is the reply of a request whose stream has ended
Completed(i) ==
    /\ messages[i].id.k = "reply"
    /\ reqs[messages[i].id.r].st = "over"

\* this step is clear chat, alone or as the first part of Cancel, or one of
\* its timers replacing the list by the welcome message
ClearStep == ClearClick \/ ConfirmCancel \/ WelcomeTimer

C18_Step ==
    \/ ClearStep
    \/ /\ Len(messages') >= Len(messages)
       /\ \A i \in 1..Len(messages) :
             /\ messages'[i].id = messages[i].id
             /\ Completed(i) => messages'[i] = messages[i]

\* C18: the text of a reply whose stream has ended never changes, and but for
\* clear chat every message stays at its place in the list.
C18_CompletedRepliesImmutable == [][C18_Step]_vars

\* the text that the response_chunk values of `lines`, applied in their order
\* to `text`, give: appended, or in page.tsx replacing
RECURSIVE Arrived(_, _, _)
Arrived(v, text, lines) ==
    IF lines = <<>> THEN text
    ELSE Arrived(v,
                 IF Head(lines).chunk = <<>> THEN text
                 ELSE IF v = "page" THEN Head(lines).chunk
                 ELSE text \o Head(lines).chunk,
                 Tail(lines))

\* the reply of request r, where the list `ms` holds it, has the text t
ReplyIs(ms, r, t) ==
    \A i \in 1..Len(ms) : ms[i].id = MsgId("reply", r) => ms[i].text = t

C19_Step ==
    \A r \in Rids :
        /\ \A lines \in ChunkReads :
              Read(r, lines)
                  => /\ ReplyIs(messages', r, Arrived(variant, reqs[r].text, lines))
                     /\ reqs'[r].st = "reading"
                            => reqs'[r].text = Arrived(variant, reqs[r].text, lines)
        /\ ReadDone(r) => ReplyIs(messages', r, reqs[r].text)

\* C19: every read applies the response_chunk values it brings, each once and
\* in their order, to the text of the stream (appending, in page.tsx
\* replacing), and the reply has that text when the stream ends.
C19_ChunksInArrivalOrder == [][C19_Step]_vars

\* this step settles a request for the common questions
QuestionsSettle ==
    QuestionsFail \/ \E questions \in {ServerQuestions, <<>>} : QuestionsOk(questions)

C20_Step ==
    /\ questionFetches' =
          IF ~isOpen /\ isOpen' THEN questionFetches + 1
          ELSE IF QuestionsSettle THEN questionFetches - 1
          ELSE questionFetches
    /\ QuestionsFail
          => Suggestions(variant, commonQuestions')
                 \in {FallbackQuestions, Slice3(FallbackQuestions)}

\* C20: the common questions are requested once by every opening of the
\* widget and by no other step, and after a failed request the questions
\* offered are those of the hardcoded list.
C20_QuestionsFetchedOncePerOpen == [][C20_Step]_vars

\* the tokens of the directives: the tags and what a JSON blob is made of
DirectiveTokens ==
    {BookingTag, UpdateTag, SlotsOpen, ConfirmTag, "{", "}", "\"x\":1", "\"x\":"}

\* C21: the text displayed holds no directive tag and no part of a JSON blob.
C21_NoDirectiveDisplayed ==
    rendered.done
        => \A i \in 1..Len(rendered.out.text) : rendered.out.text[i] \notin DirectiveTokens

\* a read result that holds an object with is_final
HasFinal(lines) == \E i \in 1..Len(lines) : ~lines[i].bad /\ lines[i].final

\* C22: the read that receives an object with is_final ends the send: the
\* request awaits no further read and the status is idle.
C22_FinalCompletesSend ==
    [][\A r \in Rids, lines \in ReadInputs :
          Read(r, lines) /\ HasFinal(lines)
              => reqs'[r].st # "reading" /\ chatStatus' = "idle"]_vars

\* the session_id of the last object of a read result that carries one
RECURSIVE LastSid(_, _)
LastSid(lines, none) ==
    IF lines = <<>> THEN none
    ELSE LET line == lines[Len(lines)]
         IN IF ~line.bad /\ line.sid # "none" THEN line.sid
            ELSE LastSid(SubSeq(lines, 1, Len(lines) - 1), none)

\* the step starts request r
Sent(r) == reqs[r].st = "none" /\ reqs'[r].st # "none"

\* C23: a read that carries a session_id sets the session id to it, and
\* every request carries in X-Session-ID the session id current when it is
\* sent.
C23_SessionIdFollowsResponse ==
    [][/\ \A r \in Rids, lines \in SessionReads :
             Read(r, lines) /\ LastSid(lines, "none") # "none"
                 => session'.sessionId = EchoedSid(Cur, r, LastSid(lines, "none"))
       /\ \A r \in Rids : Sent(r) => reqs'[r].sid = session'.sessionId]_vars

\* C24: while a request that was not aborted is in flight, the status is
\* typing and the abort-controller ref refers to that request.
C24_InFlightIsCurrent ==
    \A r \in Rids :
        HasAbort(variant) /\ InFlight(reqs[r].st)
            => chatStatus = "typing" /\ abortControllerRef = r

\* request r was sent before the last clear chat: it is in flight and
\* carries another session id than the last one generated
SentBeforeClear(r) == InFlight(reqs[r].st) /\ reqs[r].sid # sidCount

\* the step handles a response, or a failure, of request r
Response(r) ==
    \/ FetchOk(r)
    \/ \E kind \in FetchFailures : FetchFail(r, kind)
    \/ \E lines \in LateReads : Read(r, lines)
    \/ ReadDone(r)
    \/ ReadFail(r)

\* C25: a response or a failure of a request sent before the last clear chat
\* changes neither the message list nor the session.
C25_OldExchangeIsInert ==
    [][\A r \in Rids :
          SentBeforeClear(r) /\ Response(r)
              => messages' = messages /\ session' = session]_vars

\* the messages of the exchanges whose user message is in the list
OfListedExchange(msgs) ==
    { i \in 1..Len(msgs) :
        /\ msgs[i].id.k \in {"user", "reply", "error"}
        /\ \E j \in 1..Len(msgs) : msgs[j].id = MsgId("user", msgs[i].id.r) }

\* C26: the welcome timer removes no user message of the list and no bot
\* message of that user message's exchange.
C26_WelcomeTimerKeepsMessages ==
    [][WelcomeTimer
          => \A i \in OfListedExchange(messages) :
                 \E j \in 1..Len(messages') : messages'[j].id = messages[i].id]_vars

\* the step ends request r otherwise than by an abort
Completion(r) ==
    \/ ReadDone(r)
    \/ ReadFail(r)
    \/ \E kind \in FetchFailures : FetchFail(r, kind)
    \/ \E lines \in ReadInputs : Read(r, lines) /\ reqs'[r].st = "over"

\* the positions of the bot messages of request r's exchange
BotMessagesOf(msgs, r) ==
    { i \in 1..Len(msgs) : msgs[i].id \in {MsgId("reply", r), MsgId("error", r)} }

\* C27: when a request ends without an abort and its user message is in the
\* list, the list holds exactly one bot message of that exchange, after the
\* user message.
C27_OneBotMessage ==
    [][\A r \in Rids :
          Completion(r)
              => \A u \in 1..Len(messages') :
                     messages'[u].id = MsgId("user", r)
                         => /\ Cardinality(BotMessagesOf(messages', r)) = 1
                            /\ \A i \in BotMessagesOf(messages', r) : u < i]_vars

\* the message list is the same after the reads of `d` as after one read
\* that gives the whole of it
SameTexts(r, d) ==
    Deliver(variant, Cur, r, d.reads).messages
        = Deliver(variant, Cur, r, <<d.whole>>).messages

\* C28: wherever a request is being read, the texts shown after the rest of
\* the response do not depend on how its bytes are split into reads, between
\* two lines or inside a line.
C28_SplitIndependent ==
    \A r \in Rids :
        reqs[r].st = "reading"
            => \A d \in BetweenLines \cup InsideLine : SameTexts(r, d)

\* C29: a user message is displayed as typed and yields neither time-slot
\* buttons nor the Cancel / Continue buttons.
C29_UserTextNotInterpreted ==
    \A i \in 1..Len(messages) :
        messages[i].sender = "user"
            => LET out == RenderMessageContent(variant, messages[i].text)
               IN /\ out.text = messages[i].text
                  /\ out.slots = <<>>
                  /\ ~out.confirm

\* the step sends the cancellation message as request r
CancellationSent(r) ==
    /\ Sent(r)
    /\ \E i \in 1..Len(messages') : messages'[i] = UserMessage(r, CancelText)

\* C30: the request of the cancellation message sent after Cancel carries
\* the session id that the clear chat of that Cancel generated, the last one
\* generated.
C30_CancellationInNewSession ==
    [][\A r \in Rids : CancellationSent(r) => reqs'[r].sid = sidCount']_vars

====
